---- MODULE Spec2Model ----
(***************************************************************************)
(* Model of claude_autoapprove_mcp/autoapprove_server.py: the launch       *)
(* orchestrator (main), the process locator (find_claude_process,          *)
(* get_main_claude_process), the terminator (kill_claude_process) and the  *)
(* background path (start_in_background, daemonize).                       *)
(*                                                                         *)
(* Python strings are sequences of one-character strings, so that the      *)
(* substring tests ("x in s"), str(list) and str.lower() are computed.     *)
(***************************************************************************)
EXTENDS Integers, Sequences, FiniteSets, TLC

(* ---------------------------- bounds ---------------------------------- *)

\* number of processes in the process table; the last one is this process
NProc ==
    3

\* cap on the number of processes spawned through the background path
MaxSpawn ==
    4

(* ------------------------- string literals ---------------------------- *)

S_Claude ==
    <<"C","l","a","u","d","e">>

S_ClaudeApp ==
    <<"C","l","a","u","d","e",".","a","p","p">>

S_ClaudeExe ==
    <<"C","l","a","u","d","e",".","e","x","e">>

S_claude ==
    <<"c","l","a","u","d","e">>

S_claude_exe ==
    <<"c","l","a","u","d","e",".","e","x","e">>

S_MacBinary ==
    <<"C","o","n","t","e","n","t","s","/","M","a","c","O","S","/","C","l","a","u","d","e">>

S_python3 ==
    <<"p","y","t","h","o","n","3">>

S_srv ==
    <<"s","r","v",".","p","y">>

S_usr_bin_python3 ==
    <<"/","u","s","r","/","b","i","n","/","p","y","t","h","o","n","3">>

S_MacMainPath ==
    <<"/","A","p","p","l","i","c","a","t","i","o","n","s","/","C","l","a","u","d","e",".","a","p","p","/","C","o","n","t","e","n","t","s","/","M","a","c","O","S","/","C","l","a","u","d","e">>

S_ClaudeHelper ==
    <<"C","l","a","u","d","e"," ","H","e","l","p","e","r">>

S_MacHelperPath ==
    <<"/","A","p","p","l","i","c","a","t","i","o","n","s","/","C","l","a","u","d","e",".","a","p","p","/","C","o","n","t","e","n","t","s","/","F","r","a","m","e","w","o","r","k","s","/","C","l","a","u","d","e"," ","H","e","l","p","e","r">>

S_WinPath ==
    <<"C",":","/","P","r","o","g","r","a","m"," ","F","i","l","e","s","/","C","l","a","u","d","e","/","C","l","a","u","d","e",".","e","x","e">>

S_CLAUDE_EXE ==
    <<"C","L","A","U","D","E",".","E","X","E">>

S_WinPathUpper ==
    <<"C",":","/","P","R","O","G","R","A","~","1","/","C","L","A","U","D","E","/","C","L","A","U","D","E",".","E","X","E">>

S_LinuxMainPath ==
    <<"/","o","p","t","/","C","l","a","u","d","e","/","C","l","a","u","d","e">>

S_LinuxPath ==
    <<"/","o","p","t","/","C","l","a","u","d","e","/","c","l","a","u","d","e">>

S_usr_bin_claude ==
    <<"/","u","s","r","/","b","i","n","/","c","l","a","u","d","e">>

S_vim ==
    <<"v","i","m">>

S_notes ==
    <<"C","l","a","u","d","e",".","m","d">>

S_usr_bin_vim ==
    <<"/","u","s","r","/","b","i","n","/","v","i","m">>

(* ------------------------- string operations -------------------------- *)

\* Python "sub in s" on str
Contains(sub, s) ==
    \E i \in 1..(Len(s) - Len(sub) + 1) : SubSeq(s, i, i + Len(sub) - 1) = sub

UpperChars ==
    <<"A","B","C","D","E","F","G","H","I","J","K","L","M",
      "N","O","P","Q","R","S","T","U","V","W","X","Y","Z">>

LowerChars ==
    <<"a","b","c","d","e","f","g","h","i","j","k","l","m",
      "n","o","p","q","r","s","t","u","v","w","x","y","z">>

LowerChar(c) ==
    IF \E i \in 1..26 : UpperChars[i] = c
    THEN LowerChars[CHOOSE i \in 1..26 : UpperChars[i] = c]
    ELSE c

\* Python str.lower()
Lower(s) ==
    [i \in 1..Len(s) |-> LowerChar(s[i])]

RECURSIVE JoinArgs(_)
\* "'a', 'b', ..." : the elements of str(list), each in quotes
JoinArgs(args) ==
    IF Len(args) = 0 THEN <<>>
    ELSE IF Len(args) = 1 THEN <<"'">> \o args[1] \o <<"'">>
    ELSE <<"'">> \o args[1] \o <<"'", ",", " ">> \o JoinArgs(Tail(args))

\* Python str(list of str); the strings used hold no quote or backslash
StrOfList(args) ==
    <<"[">> \o JoinArgs(args) \o <<"]">>

(* --------------------------- process table --------------------------- *)

\* sys.platform values: macOS, Windows, Linux, and one other POSIX platform
Platforms ==
    {"darwin", "win32", "linux", "freebsd"}

\* psutil.NoSuchProcess, psutil.AccessDenied, psutil.ZombieProcess
ProcErrors ==
    {"NoSuchProcess", "AccessDenied", "ZombieProcess"}

\* processes found on any platform: a Python interpreter, an editor holding
\* a file named Claude.md, and a command-line tool called claude
CommonKinds ==
    { [name |-> S_python3, cmdline |-> <<S_python3, S_srv>>, exe |-> S_usr_bin_python3],
      [name |-> S_vim, cmdline |-> <<S_vim, S_notes>>, exe |-> S_usr_bin_vim],
      [name |-> S_claude, cmdline |-> <<S_usr_bin_claude>>, exe |-> S_usr_bin_claude] }

\* the processes a process table of the platform can hold: name(),
\* cmdline(), exe() of the desktop app's processes, plus the common ones
KindsOf(plat) ==
    CommonKinds \cup
    CASE plat = "darwin" ->
           { [name |-> S_Claude, cmdline |-> <<S_MacMainPath>>, exe |-> S_MacMainPath],
             [name |-> S_ClaudeHelper, cmdline |-> <<S_MacHelperPath>>, exe |-> S_MacHelperPath] }
      [] plat = "win32" ->
           { [name |-> S_ClaudeExe, cmdline |-> <<S_WinPath>>, exe |-> S_WinPath],
             [name |-> S_CLAUDE_EXE, cmdline |-> <<S_WinPathUpper>>, exe |-> S_WinPathUpper] }
      [] OTHER ->
           { [name |-> S_claude, cmdline |-> <<S_LinuxPath>>, exe |-> S_LinuxPath],
             [name |-> S_Claude, cmdline |-> <<S_LinuxMainPath>>, exe |-> S_LinuxMainPath] }

\* the process running this program: a Python interpreter
SelfKind ==
    [name |-> S_python3, cmdline |-> <<S_python3, S_srv>>, exe |-> S_usr_bin_python3]

Pids ==
    1..NProc

\* os.getpid()
Self ==
    NProc

\* "no process" (Python None) as a pid
None ==
    0

(* ------------------------------ state --------------------------------- *)

VARIABLES
    platform,    \* sys.platform
    daemon,      \* args.daemon
    entry,       \* how the module is run: "import" (main() called by an
                 \* importer) or "script" (executed as __main__)
    table,       \* pid -> attributes of the process (psutil view)
    ppid,        \* pid -> parent pid (None for a process without parent)
    pc,          \* spawned process -> its position in the program
    calls,       \* the collaborator / component calls made so far: <<process, op>>
    nspawned,    \* number of processes created by the background path
    session,     \* spawned process -> the session it belongs to
    stdio,       \* spawned process -> where stdin/stdout/stderr point
    registered,  \* spawned process -> autoapproved_tools is registered on mcp
    current,     \* get_main_claude_process: the walk cursor
    candidate,   \* get_main_claude_process: fallback candidate
    steps,       \* get_main_claude_process: iterations of the running while loop
    unread,      \* get_main_claude_process: ancestors whose exe() read failed
    idx,         \* find_claude_process: position of process_iter
    skipped,     \* find_claude_process: candidates dropped by the except clause
    proc,        \* kill_claude_process: the located process
    children,    \* kill_claude_process: snapshot of proc.children(recursive=True)
    ci,          \* kill_claude_process: position in the children loop
    signalled,   \* processes that were sent terminate()
    alive,       \* kill_claude_process: processes wait_procs reported alive
    forced,      \* processes that were sent kill()
    caught,      \* the error caught by the except of line 124 ("none" if none)
    killResult,  \* return value of kill_claude_process ("none" before it returns)
    launchResult,\* how start_claude ended ("none" before it is called)
    exc          \* the exception that left main ("none" if there is none)

vars ==
    <<platform, daemon, entry, table, ppid, pc, calls, nspawned, session, stdio,
      registered,
      current, candidate, steps, unread, idx, skipped, proc, children, ci,
      signalled, alive, forced, caught, killResult, launchResult, exc>>

envVars ==
    <<platform, daemon, entry, table, ppid>>

bgVars ==
    <<nspawned, session, stdio, registered>>

walkVars ==
    <<current, candidate, steps, unread>>

scanVars ==
    <<idx, skipped>>

sigVars ==
    <<children, ci, signalled, alive, forced, caught>>

\* cap on the iterations counted for one while loop of the parent-chain
\* walk: one more than a walk that visits every process once
MaxWalkSteps ==
    NProc + 1

\* processes of the invocation chain: 0 is the original invocation
Chain ==
    0..MaxSpawn

\* the state in which an importer (the installed entry point) calls main():
\* the module body has run to its end
Init ==
    /\ platform \in Platforms
    /\ daemon \in BOOLEAN
    /\ entry = "import"
    /\ registered = [k \in Chain |-> k = 0]
    /\ table \in {t \in [Pids -> KindsOf(platform)] : t[Self] = SelfKind}
    /\ ppid \in {f \in [Pids -> 0..NProc] : \A p \in Pids : f[p] < p}
    /\ pc = [k \in Chain |-> IF k = 0 THEN "main" ELSE "unborn"]
    /\ calls = <<>>
    /\ nspawned = 0
    /\ session = [k \in Chain |-> -1]
    /\ stdio = [k \in Chain |-> "inherited"]
    /\ current = None
    /\ candidate = None
    /\ steps = 0
    /\ unread = {}
    /\ idx = 0
    /\ skipped = {}
    /\ proc = None
    /\ children = <<>>
    /\ ci = 0
    /\ signalled = {}
    /\ alive = {}
    /\ forced = {}
    /\ caught = "none"
    /\ killResult = "none"
    /\ launchResult = "none"
    /\ exc = "none"

(* ------------------------ main: control flow -------------------------- *)

\* main, lines 204-205: if args.daemon: start_in_background(args)
AfterDaemonCheck(d) ==
    IF d THEN "start_in_background" ELSE "probe"

\* the return of line 206 left out: main goes on to the probe
AfterStartInBackground_NoReturn ==
    "probe"

\* main, line 206: return (after start_in_background came back)
AfterStartInBackground ==
    "return"

\* the "not" of line 209 left out
AfterProbe_Negated(open) ==
    IF open THEN "kill" ELSE "inject"

\* main, line 209: if not is_port_open(args.port)
AfterProbe(open) ==
    IF open THEN "inject" ELSE "kill"

\* the return of line 227 placed in the except handlers only
AfterLaunch_FallThrough(outcome) ==
    CASE outcome = "ok" -> "inject"
      [] outcome = "TimeoutError" -> "return"
      [] outcome = "Exception" -> "return"

\* the handler of lines 224-225 left out
AfterLaunch_NoExceptHandler(outcome) ==
    CASE outcome = "ok" -> "return"
      [] outcome = "TimeoutError" -> "return"
      [] outcome = "Exception" -> "raised"

\* main, lines 220-227: try start_claude / except TimeoutError / except
\* Exception, then the return that closes the port-closed branch
AfterLaunch(outcome) ==
    CASE outcome = "ok" -> "return"
      [] outcome = "TimeoutError" -> "return"
      [] outcome = "Exception" -> "return"

\* main, lines 230-231: asyncio.run(inject_script(...)) then mcp.run()
AfterInject(outcome) ==
    IF outcome = "ok" THEN "serve" ELSE "raised"

Goto(k, label) ==
    pc' = [pc EXCEPT ![k] = label]

Call(k, op) ==
    calls' = Append(calls, <<k, op>>)

\* module body, lines 14-19 and 234-247: executed as a script, the __main__
\* guard of lines 234-235 calls main() before the @mcp.tool() decorator of
\* line 242 has run; imported, the whole body runs (the tool is registered)
\* and the importer then calls main()
ModuleLoad(k) ==
    /\ pc[k] = "module"
    /\ registered' = [registered EXCEPT ![k] = (entry = "import")]
    /\ Goto(k, "main")
    /\ UNCHANGED <<envVars, calls, nspawned, session, stdio, walkVars, scanVars,
                   proc, sigVars, killResult, launchResult, exc>>

\* main, lines 195-204: argument handling and the --daemon test
MainEntry(k) ==
    /\ pc[k] = "main"
    /\ Goto(k, AfterDaemonCheck(daemon))
    /\ UNCHANGED <<envVars, calls, bgVars, walkVars, scanVars, proc, sigVars,
                   killResult, launchResult, exc>>

\* main, line 209: the initial liveness probe
Probe(k) ==
    /\ pc[k] = "probe"
    /\ \E open \in BOOLEAN :
          /\ Call(k, IF open THEN "is_port_open:true" ELSE "is_port_open:false")
          /\ Goto(k, AfterProbe(open))
    /\ UNCHANGED <<envVars, bgVars, walkVars, scanVars, proc, sigVars,
                   killResult, launchResult, exc>>

\* main, lines 214-227: kill_claude_process has returned (its local
\* variables are gone; what it did to other processes stays), then the
\* launch collaborator and its two handlers
Launch(k) ==
    /\ pc[k] = "launch"
    /\ \E outcome \in {"ok", "TimeoutError", "Exception"} :
          /\ launchResult' = outcome
          /\ Call(k, "start_claude")
          /\ Goto(k, AfterLaunch(outcome))
    /\ current' = None
    /\ candidate' = None
    /\ steps' = 0
    /\ unread' = {}
    /\ idx' = 0
    /\ skipped' = {}
    /\ children' = <<>>
    /\ ci' = 0
    /\ alive' = {}
    /\ caught' = "none"
    /\ UNCHANGED <<envVars, bgVars, proc, signalled, forced, killResult, exc>>

\* main, line 230: asyncio.run(inject_script(claude_config, args.port))
Inject(k) ==
    /\ pc[k] = "inject"
    /\ \E outcome \in {"ok", "Exception"} :
          /\ calls' = calls \o <<<<k, "inject_script">>>>
                        \o (IF outcome = "ok" THEN <<<<k, "inject_done">>>> ELSE <<>>)
          /\ exc' = IF outcome = "ok" THEN exc ELSE outcome
          /\ Goto(k, AfterInject(outcome))
    /\ UNCHANGED <<envVars, bgVars, walkVars, scanVars, proc, sigVars,
                   killResult, launchResult>>

\* main, line 231: mcp.run()
Serve(k) ==
    /\ pc[k] = "serve"
    /\ Call(k, "mcp.run")
    /\ Goto(k, "serving")
    /\ UNCHANGED <<envVars, bgVars, walkVars, scanVars, proc, sigVars,
                   killResult, launchResult, exc>>

(* ------------------------- process locator ---------------------------- *)

\* outcomes of one psutil attribute read or signal on process p; the process
\* running this program can always query itself
ReadOutcomes(p) ==
    IF p = Self THEN {"ok"} ELSE {"ok"} \cup ProcErrors

\* find_claude_process, lines 36, 39, 42: the platform has a branch
HasBranch(plat) ==
    plat \in {"darwin", "win32", "linux"}

\* the name test made case-insensitive
NameTest_IgnoreCase(plat, name) ==
    CASE plat = "darwin" -> Lower(name) = Lower(S_Claude)
      [] plat = "win32" -> Contains(Lower(S_ClaudeExe), Lower(name))
      [] plat = "linux" -> Contains(Lower(S_Claude), Lower(name))
      [] OTHER -> FALSE

\* find_claude_process, lines 37, 40, 43: the test on proc.name()
NameTest(plat, name) ==
    CASE plat = "darwin" -> name = S_Claude
      [] plat = "win32" -> Contains(S_ClaudeExe, name)
      [] plat = "linux" -> Contains(S_Claude, name)
      [] OTHER -> FALSE

\* the Linux branch testing the name only
CmdTest_NoLinux(plat, cmdline) ==
    CASE plat = "darwin" -> Contains(S_ClaudeApp, StrOfList(cmdline))
      [] plat = "win32" -> Contains(S_ClaudeExe, StrOfList(cmdline))
      [] OTHER -> FALSE

\* find_claude_process, lines 37, 40, 43: the test on str(proc.cmdline())
CmdTest(plat, cmdline) ==
    CASE plat = "darwin" -> Contains(S_ClaudeApp, StrOfList(cmdline))
      [] plat = "win32" -> Contains(S_ClaudeExe, StrOfList(cmdline))
      [] plat = "linux" -> Contains(S_Claude, StrOfList(cmdline))
      [] OTHER -> FALSE

\* find_claude_process, lines 34-44: the body of the try for one process;
\* nameR / cmdR say how reading name() / cmdline() ends. The result is
\* "match", "nomatch" or the error raised. cmdline() is read only when the
\* name test failed (short-circuit or).
Evaluate(plat, attrs, nameR, cmdR) ==
    IF ~HasBranch(plat) THEN "nomatch"
    ELSE IF nameR # "ok" THEN nameR
    ELSE IF NameTest(plat, attrs.name) THEN "match"
    ELSE IF cmdR # "ok" THEN cmdR
    ELSE IF CmdTest(plat, attrs.cmdline) THEN "match"
    ELSE "nomatch"

\* the except clause of line 45 without ZombieProcess
ScanCaught_NoZombie ==
    {"NoSuchProcess", "AccessDenied"}

\* find_claude_process, line 45: the errors the except clause swallows
ScanCaught ==
    ProcErrors

\* get_main_claude_process, lines 60-63: the errors caught around exe()
ExeWalkCaught ==
    ProcErrors

\* get_main_claude_process, lines 70-74: name() is read outside any try
NameWalkCaught ==
    {}

\* get_main_claude_process, line 64
IsMainBinary(exe_path) ==
    Contains(S_MacBinary, exe_path)

\* the .lower() of line 71 left out
IsBareName_CaseSensitive(name) ==
    name \in {S_claude, S_claude_exe}

\* get_main_claude_process, lines 71-72
IsBareName(name) ==
    Lower(name) \in {S_claude, S_claude_exe}

(* --------------------------- terminator ------------------------------- *)

\* the "return True" of lines 92 and 101 left out
AfterNative_AlwaysLocate(plat, raised) ==
    "locate"

\* kill_claude_process, lines 86-103: where control goes after the native
\* quit (osascript on macOS, taskkill on Windows); raised says whether
\* subprocess.run raised
AfterNative(plat, raised) ==
    IF plat \in {"darwin", "win32"} /\ ~raised THEN "return_true" ELSE "locate"

\* kill_claude_process, line 124: except Exception catches every error of
\* the signalling block
SignalCaught ==
    ProcErrors

RECURSIVE Descendants(_, _)
\* psutil children(recursive=True): every process below p in the tree
Descendants(p, n) ==
    IF n = 0 THEN {}
    ELSE LET direct == {q \in Pids : ppid[q] = p}
         IN direct \cup UNION {Descendants(q, n - 1) : q \in direct}

\* the orders in which a set of processes can be listed
Orderings(S) ==
    {s \in [1..Cardinality(S) -> S] : \A i, j \in 1..Cardinality(S) : i # j => s[i] # s[j]}

\* kill_claude_process, lines 86-105: native quit, then the start of the
\* parent-chain walk
Kill(k) ==
    /\ pc[k] = "kill"
    /\ \E raised \in (IF platform \in {"darwin", "win32"} THEN BOOLEAN ELSE {FALSE}) :
         LET native == IF platform \notin {"darwin", "win32"} THEN <<>>
                       ELSE IF raised THEN <<<<k, "native:raised">>>>
                       ELSE <<<<k, "native:ok">>>>
         IN IF AfterNative(platform, raised) = "return_true"
            THEN /\ calls' = calls \o <<<<k, "kill_claude_process">>>> \o native
                 /\ killResult' = "True"
                 /\ Goto(k, "launch")
                 /\ UNCHANGED <<current, steps, unread>>
            ELSE /\ calls' = calls \o <<<<k, "kill_claude_process">>>> \o native
                                   \o <<<<k, "locate">>>>
                 /\ current' = Self
                 /\ steps' = 0
                 /\ unread' = {}
                 /\ Goto(k, "walk_exe")
                 /\ UNCHANGED killResult
    /\ UNCHANGED <<envVars, bgVars, candidate, scanVars, proc, sigVars,
                   launchResult, exc>>

\* get_main_claude_process, lines 58-68: one iteration of the executable-path
\* walk, or its exit into the fallback walk
WalkExe(k) ==
    /\ pc[k] = "walk_exe"
    /\ IF current # None
       THEN /\ steps < MaxWalkSteps
            /\ steps' = steps + 1
            /\ \E r \in ReadOutcomes(current) :
                 IF r # "ok" /\ r \notin ExeWalkCaught
                 THEN /\ exc' = r
                      /\ Goto(k, "raised")
                      /\ UNCHANGED <<current, candidate, unread, proc>>
                 ELSE LET exe_path == IF r = "ok" THEN table[current].exe ELSE <<>>
                      IN /\ unread' = IF r = "ok" THEN unread ELSE unread \cup {current}
                         /\ IF IsMainBinary(exe_path)
                            THEN /\ proc' = current
                                 /\ Goto(k, "snapshot")
                                 /\ UNCHANGED <<current, candidate, exc>>
                            ELSE /\ current' = ppid[current]
                                 /\ UNCHANGED <<pc, candidate, proc, exc>>
       ELSE /\ current' = Self
            /\ candidate' = None
            /\ steps' = 0
            /\ Goto(k, "walk_name")
            /\ UNCHANGED <<unread, proc, exc>>
    /\ UNCHANGED <<envVars, calls, bgVars, scanVars, sigVars, killResult,
                   launchResult>>

\* get_main_claude_process, lines 70-75, and line 105 "or find_claude_process()":
\* one iteration of the name walk, or its return
WalkName(k) ==
    /\ pc[k] = "walk_name"
    /\ IF current # None
       THEN /\ steps < MaxWalkSteps
            /\ steps' = steps + 1
            /\ \E r \in ReadOutcomes(current) :
                 IF r # "ok" /\ r \notin NameWalkCaught
                 THEN /\ exc' = r
                      /\ Goto(k, "raised")
                      /\ UNCHANGED <<current, candidate, proc, idx, skipped>>
                 ELSE /\ candidate' = IF r = "ok" /\ IsBareName(table[current].name)
                                      THEN current ELSE candidate
                      /\ current' = ppid[current]
                      /\ UNCHANGED <<pc, proc, idx, skipped, exc>>
       ELSE /\ proc' = candidate
            /\ IF candidate # None
               THEN Goto(k, "snapshot") /\ UNCHANGED <<idx, skipped>>
               ELSE Goto(k, "scan") /\ idx' = 1 /\ skipped' = {}
            /\ UNCHANGED <<current, candidate, steps, exc>>
    /\ UNCHANGED unread
    /\ UNCHANGED <<envVars, calls, bgVars, sigVars, killResult, launchResult>>

\* find_claude_process, lines 33-47, and kill_claude_process, lines 106-107:
\* one iteration of the scan over process_iter (ascending pid), or its end
Scan(k) ==
    /\ pc[k] = "scan"
    /\ IF idx \in Pids
       THEN \E nameR \in ReadOutcomes(idx), cmdR \in ReadOutcomes(idx) :
              LET out == Evaluate(platform, table[idx], nameR, cmdR)
              IN CASE out = "match" ->
                        /\ proc' = idx
                        /\ Goto(k, "snapshot")
                        /\ UNCHANGED <<idx, skipped, killResult, exc>>
                   [] out = "nomatch" ->
                        /\ idx' = idx + 1
                        /\ UNCHANGED <<pc, skipped, proc, killResult, exc>>
                   [] out \in ScanCaught ->
                        /\ idx' = idx + 1
                        /\ skipped' = skipped \cup {idx}
                        /\ UNCHANGED <<pc, proc, killResult, exc>>
                   [] OTHER ->
                        /\ exc' = out
                        /\ Goto(k, "raised")
                        /\ UNCHANGED <<idx, skipped, proc, killResult>>
       ELSE /\ killResult' = "False"
            /\ Goto(k, "launch")
            /\ UNCHANGED <<idx, skipped, proc, exc>>
    /\ UNCHANGED <<envVars, calls, bgVars, walkVars, sigVars, launchResult>>

\* what happens when a psutil call of the signalling block fails with err
SignalFailure(k, err) ==
    IF err \in SignalCaught
    THEN caught' = err /\ killResult' = "False" /\ Goto(k, "launch") /\ UNCHANGED exc
    ELSE exc' = err /\ Goto(k, "raised") /\ UNCHANGED <<killResult, caught>>

\* kill_claude_process, line 110: children = proc.children(recursive=True)
Snapshot(k) ==
    /\ pc[k] = "snapshot"
    /\ \E r \in ReadOutcomes(proc) :
         IF r = "ok"
         THEN /\ \E order \in Orderings(Descendants(proc, NProc)) : children' = order
              /\ ci' = 1
              /\ Goto(k, "term_children")
              /\ UNCHANGED <<killResult, exc, caught>>
         ELSE SignalFailure(k, r) /\ UNCHANGED <<children, ci>>
    /\ UNCHANGED <<envVars, calls, bgVars, walkVars, scanVars, proc, signalled,
                   alive, forced, launchResult>>

\* the loop of lines 111-113 running over no child
TermChild_SkipLoop(k) ==
    /\ pc[k] = "term_children"
    /\ Goto(k, "term_parent")
    /\ UNCHANGED <<envVars, calls, bgVars, walkVars, scanVars, proc, sigVars,
                   killResult, launchResult, exc>>

\* kill_claude_process, lines 111-113: child.terminate() for the next child;
\* a terminate signal sent to the running process itself ends it
TermChild(k) ==
    /\ pc[k] = "term_children"
    /\ IF ci \in 1..Len(children)
       THEN IF children[ci] = Self
            THEN /\ signalled' = signalled \cup {Self}
                 /\ Goto(k, "killed")
                 /\ UNCHANGED <<ci, killResult, exc, caught>>
            ELSE \E r \in ReadOutcomes(children[ci]) :
                   IF r = "ok"
                   THEN /\ signalled' = signalled \cup {children[ci]}
                        /\ ci' = ci + 1
                        /\ UNCHANGED <<pc, killResult, exc, caught>>
                   ELSE SignalFailure(k, r) /\ UNCHANGED <<ci, signalled>>
       ELSE /\ Goto(k, "term_parent")
            /\ UNCHANGED <<ci, signalled, killResult, exc, caught>>
    /\ UNCHANGED <<envVars, calls, bgVars, walkVars, scanVars, proc, children,
                   alive, forced, launchResult>>

\* kill_claude_process, lines 114-115: proc.terminate()
TermParent(k) ==
    /\ pc[k] = "term_parent"
    /\ IF proc = Self
       THEN /\ signalled' = signalled \cup {Self}
            /\ Goto(k, "killed")
            /\ UNCHANGED <<killResult, exc, caught>>
       ELSE \E r \in ReadOutcomes(proc) :
              IF r = "ok"
              THEN /\ signalled' = signalled \cup {proc}
                   /\ Goto(k, "wait")
                   /\ UNCHANGED <<killResult, exc, caught>>
              ELSE SignalFailure(k, r) /\ UNCHANGED signalled
    /\ UNCHANGED <<envVars, calls, bgVars, walkVars, scanVars, proc, children,
                   ci, alive, forced, launchResult>>

\* kill_claude_process, lines 117-119 and 123: psutil.wait_procs(wait_list,
\* timeout=5) reports the processes still alive when the bound elapses
Wait(k) ==
    /\ pc[k] = "wait"
    /\ \E a \in SUBSET ({proc} \cup {children[i] : i \in 1..Len(children)}) :
         /\ alive' = a
         /\ IF a = {}
            THEN killResult' = "True" /\ Goto(k, "launch")
            ELSE Goto(k, "force_kill") /\ UNCHANGED killResult
    /\ UNCHANGED caught
    /\ UNCHANGED <<envVars, calls, bgVars, walkVars, scanVars, proc, children,
                   ci, signalled, forced, launchResult, exc>>

\* kill_claude_process, lines 121-123: p.kill() for the next process of
\* alive, or the return after the loop
ForceKill(k) ==
    /\ pc[k] = "force_kill"
    /\ IF alive \ forced # {}
       THEN \E p \in alive \ forced : \E r \in ReadOutcomes(p) :
              IF r = "ok"
              THEN /\ forced' = forced \cup {p}
                   /\ UNCHANGED <<pc, killResult, exc, caught>>
              ELSE SignalFailure(k, r) /\ UNCHANGED forced
       ELSE /\ killResult' = "True"
            /\ Goto(k, "launch")
            /\ UNCHANGED <<forced, exc, caught>>
    /\ UNCHANGED <<envVars, calls, bgVars, walkVars, scanVars, proc, children,
                   ci, signalled, alive, launchResult>>

(* ------------------------- background path ---------------------------- *)

\* os.fork() / subprocess.Popen: the new process n starts at label, in the
\* session and with the streams of its creator k; a forked child keeps the
\* memory image (the tools registered so far), a relaunched interpreter
\* starts the module afresh
Spawn(k, n, parentLabel, childLabel) ==
    /\ nspawned' = n
    /\ pc' = [pc EXCEPT ![k] = parentLabel, ![n] = childLabel]
    /\ session' = [session EXCEPT ![n] = session[k]]
    /\ stdio' = [stdio EXCEPT ![n] = stdio[k]]
    /\ registered' = [registered EXCEPT ![n] = IF childLabel = "module" THEN FALSE
                                                ELSE registered[k]]

\* start_in_background, lines 176-192: detached relaunch of the same command
\* line on Windows, fork elsewhere (the child goes on to daemonize, the
\* parent exits)
StartInBackground(k) ==
    /\ pc[k] = "start_in_background"
    /\ nspawned < MaxSpawn
    /\ Call(k, "start_in_background")
    /\ \E r \in {"ok", "OSError"} :
         IF r = "ok"
         THEN /\ IF platform = "win32"
                 THEN Spawn(k, nspawned + 1, AfterStartInBackground, "module")
                 ELSE Spawn(k, nspawned + 1, "exit0", "daemonize")
              /\ UNCHANGED exc
         ELSE /\ exc' = r
              /\ Goto(k, "raised")
              /\ UNCHANGED bgVars
    /\ UNCHANGED <<envVars, walkVars, scanVars, proc, sigVars, killResult,
                   launchResult>>

\* daemonize, lines 133-144: the Windows early return, else the first fork
DaemonizeFork1(k) ==
    /\ pc[k] = "daemonize"
    /\ nspawned < MaxSpawn
    /\ IF platform = "win32"
       THEN Goto(k, "main") /\ UNCHANGED bgVars
       ELSE \E r \in {"ok", "OSError"} :
              IF r = "ok"
              THEN Spawn(k, nspawned + 1, "exit0", "setsid")
              ELSE Goto(k, "exit1") /\ UNCHANGED bgVars
    /\ UNCHANGED <<envVars, calls, walkVars, scanVars, proc, sigVars,
                   killResult, launchResult, exc>>

\* os.setsid() of line 148 left out
DaemonizeSetsid_NoSetsid(k) ==
    /\ pc[k] = "setsid"
    /\ Goto(k, "fork2")
    /\ UNCHANGED <<envVars, calls, bgVars, walkVars, scanVars, proc,
                   sigVars, killResult, launchResult, exc>>

\* daemonize, lines 147-149: chdir('/'), setsid(), umask(0)
DaemonizeSetsid(k) ==
    /\ pc[k] = "setsid"
    /\ session' = [session EXCEPT ![k] = k]
    /\ Goto(k, "fork2")
    /\ UNCHANGED <<envVars, calls, nspawned, stdio, registered, walkVars, scanVars,
                   proc, sigVars, killResult, launchResult, exc>>

\* daemonize, lines 152-158: the second fork
DaemonizeFork2(k) ==
    /\ pc[k] = "fork2"
    /\ nspawned < MaxSpawn
    /\ \E r \in {"ok", "OSError"} :
         IF r = "ok"
         THEN Spawn(k, nspawned + 1, "exit0", "redirect")
         ELSE Goto(k, "exit1") /\ UNCHANGED bgVars
    /\ UNCHANGED <<envVars, calls, walkVars, scanVars, proc, sigVars,
                   killResult, launchResult, exc>>

\* daemonize, lines 161-169, and start_in_background, line 188: the standard
\* streams are pointed at os.devnull, then main(args) runs again
DaemonizeRedirect(k) ==
    /\ pc[k] = "redirect"
    /\ stdio' = [stdio EXCEPT ![k] = "devnull"]
    /\ Goto(k, "main")
    /\ UNCHANGED <<envVars, calls, nspawned, session, registered, walkVars,
                   scanVars, proc, sigVars, killResult, launchResult, exc>>

(* --------------------------- specification ---------------------------- *)

Next ==
    \E k \in Chain :
        \/ ModuleLoad(k)
        \/ MainEntry(k)
        \/ Probe(k)
        \/ Kill(k)
        \/ WalkExe(k)
        \/ WalkName(k)
        \/ Scan(k)
        \/ Snapshot(k)
        \/ TermChild(k)
        \/ TermParent(k)
        \/ Wait(k)
        \/ ForceKill(k)
        \/ Launch(k)
        \/ Inject(k)
        \/ Serve(k)
        \/ StartInBackground(k)
        \/ DaemonizeFork1(k)
        \/ DaemonizeSetsid(k)
        \/ DaemonizeFork2(k)
        \/ DaemonizeRedirect(k)

Spec ==
    Init /\ [][Next]_vars

\* the module is started in either entry mode: its body has yet to run
InitEntry ==
    /\ platform \in Platforms
    /\ daemon \in BOOLEAN
    /\ entry \in {"import", "script"}
    /\ registered = [k \in Chain |-> FALSE]
    /\ table \in {t \in [Pids -> KindsOf(platform)] : t[Self] = SelfKind}
    /\ ppid \in {f \in [Pids -> 0..NProc] : \A p \in Pids : f[p] < p}
    /\ pc = [k \in Chain |-> IF k = 0 THEN "module" ELSE "unborn"]
    /\ calls = <<>>
    /\ nspawned = 0
    /\ session = [k \in Chain |-> -1]
    /\ stdio = [k \in Chain |-> "inherited"]
    /\ current = None
    /\ candidate = None
    /\ steps = 0
    /\ unread = {}
    /\ idx = 0
    /\ skipped = {}
    /\ proc = None
    /\ children = <<>>
    /\ ci = 0
    /\ signalled = {}
    /\ alive = {}
    /\ forced = {}
    /\ caught = "none"
    /\ killResult = "none"
    /\ launchResult = "none"
    /\ exc = "none"

SpecEntry ==
    InitEntry /\ [][Next]_vars

\* get_main_claude_process called on its own, line 58, for every parent
\* relation psutil's parent() could be made to report, cyclic ones included
InitWalk ==
    /\ platform \in Platforms
    /\ daemon = FALSE
    /\ entry = "import"
    /\ registered = [k \in Chain |-> k = 0]
    /\ table \in {t \in [Pids -> KindsOf(platform)] : t[Self] = SelfKind}
    /\ ppid \in [Pids -> 0..NProc]
    /\ pc = [k \in Chain |-> IF k = 0 THEN "walk_exe" ELSE "unborn"]
    /\ calls = <<>>
    /\ nspawned = 0
    /\ session = [k \in Chain |-> -1]
    /\ stdio = [k \in Chain |-> "inherited"]
    /\ current = Self
    /\ candidate = None
    /\ steps = 0
    /\ unread = {}
    /\ idx = 0
    /\ skipped = {}
    /\ proc = None
    /\ children = <<>>
    /\ ci = 0
    /\ signalled = {}
    /\ alive = {}
    /\ forced = {}
    /\ caught = "none"
    /\ killResult = "none"
    /\ launchResult = "none"
    /\ exc = "none"

NextWalk ==
    \/ WalkExe(0)
    \/ WalkName(0)

SpecWalk ==
    InitWalk /\ [][NextWalk]_vars

TypeOK ==
    /\ platform \in Platforms
    /\ daemon \in BOOLEAN
    /\ nspawned \in 0..MaxSpawn
    /\ current \in 0..NProc
    /\ candidate \in 0..NProc
    /\ proc \in 0..NProc
    /\ killResult \in {"none", "True", "False"}
    /\ launchResult \in {"none", "ok", "TimeoutError", "Exception"}

(* ------------------------------ claims -------------------------------- *)

\* process k has made the call op
Did(k, op) ==
    \E i \in 1..Len(calls) : calls[i] = <<k, op>>

\* position of the first call op of process k (0 if there is none)
PosOf(k, op) ==
    IF Did(k, op) THEN CHOOSE i \in 1..Len(calls) :
                          /\ calls[i] = <<k, op>>
                          /\ \A j \in 1..(i - 1) : calls[j] # <<k, op>>
    ELSE 0

C2_LaunchAlwaysAttempted ==
    \A k \in Chain :
        (Did(k, "is_port_open:false") /\ pc[k] \in {"return", "raised", "killed"})
            => /\ Did(k, "start_claude")
               /\ PosOf(k, "kill_claude_process") < PosOf(k, "start_claude")

\* C3: no exception raised while kill_claude_process runs leaves it: a process
\* that entered kill_claude_process is never left by a process-query error
\* before the function has returned a value.
C3_NoExceptionEscapes ==
    \A k \in Chain :
        Did(k, "kill_claude_process")
            => ~(pc[k] = "raised" /\ exc \in ProcErrors /\ killResult = "none")

\* C4: with the port open at the initial probe, the Terminator and the launch
\* collaborator are never invoked, injection is run, and mcp.run starts only
\* after the injection call has completed.
C4_PortOpenPath ==
    \A k \in Chain :
        Did(k, "is_port_open:true")
            => /\ ~Did(k, "kill_claude_process")
               /\ ~Did(k, "start_claude")
               /\ pc[k] \in {"inject", "serve", "serving", "raised"}
               /\ (pc[k] # "inject" => Did(k, "inject_script"))
               /\ (Did(k, "mcp.run") =>
                      /\ Did(k, "inject_done")
                      /\ PosOf(k, "inject_done") < PosOf(k, "mcp.run"))
               /\ (pc[k] = "raised" => ~Did(k, "mcp.run") /\ ~Did(k, "inject_done"))

C4_Witness ==
    /\ Did(0, "is_port_open:true")
    /\ Did(0, "inject_done")
    /\ Did(0, "mcp.run")
    /\ pc[0] = "serving"

\* C5: when the port is closed and start_claude raises TimeoutError or another
\* exception, main has caught it: main has returned normally, no exception
\* left it, and neither inject_script nor mcp.run is called.
C5_LaunchFailureReturns ==
    \A k \in Chain :
        (Did(k, "start_claude") /\ launchResult \in {"TimeoutError", "Exception"})
            => /\ Did(k, "is_port_open:false")
               /\ pc[k] = "return"
               /\ exc = "none"
               /\ ~Did(k, "inject_script")
               /\ ~Did(k, "mcp.run")

C5_Witness ==
    /\ Did(0, "start_claude")
    /\ launchResult = "Exception"
    /\ pc[0] = "return"

\* the calls of the probe, termination, launch, injection and server steps
ForegroundOps ==
    {"is_port_open:true", "is_port_open:false", "kill_claude_process", "locate",
     "native:ok", "native:raised", "start_claude", "inject_script", "inject_done",
     "mcp.run"}

\* C6: with --daemon set, the original invocation (process 0) performs none of
\* probe, termination, launch, injection and server start; it is only ever at
\* the daemon test, in start_in_background, or has returned or exited.
C6_DaemonOriginalOnlyBackground ==
    daemon =>
        /\ \A op \in ForegroundOps : ~Did(0, op)
        /\ pc[0] \in {"main", "start_in_background", "return", "exit0", "raised"}
        /\ (pc[0] = "return" => platform = "win32" /\ nspawned >= 1)
        /\ (pc[0] = "exit0" => platform # "win32" /\ nspawned >= 1)
        /\ (pc[0] = "raised" => exc = "OSError")

C6_Witness ==
    /\ daemon
    /\ Did(0, "start_in_background")
    /\ pc[0] \in {"return", "exit0"}
    /\ pc[1] # "unborn"

\* C7: on macOS and Windows a native quit that did not raise makes
\* kill_claude_process return true at once, with no process located or
\* signalled; the locate-and-signal path is entered only on a platform without
\* native mechanism or after the native invocation raised.
C7_NativeQuitShortCircuits ==
    \A k \in Chain :
        /\ Did(k, "native:ok") =>
              /\ platform \in {"darwin", "win32"}
              /\ killResult = "True"
              /\ ~Did(k, "locate")
              /\ proc = None
              /\ signalled = {}
              /\ forced = {}
        /\ Did(k, "locate") =>
              (platform \notin {"darwin", "win32"} \/ Did(k, "native:raised"))

C7_Witness ==
    /\ Did(0, "native:ok")
    /\ killResult = "True"
    /\ Did(0, "start_claude")

\* find_claude_process has been entered
ScanStarted ==
    idx >= 1

\* find_claude_process has returned
ScanReturned ==
    /\ ScanStarted
    /\ \A k \in Chain : pc[k] \notin {"scan", "raised"}

\* find_claude_process returned a process (the walks before it found none)
ScanFound ==
    ScanReturned /\ proc # None

\* the platform predicate holds of process p when its attributes are read
Satisfies(p) ==
    Evaluate(platform, table[p], "ok", "ok") = "match"

\* C8: a per-process read failing with no-such-process, access-denied or
\* zombie never aborts the scan: no such error leaves find_claude_process,
\* each failing candidate is skipped, a returned process satisfies the
\* predicate, and absent is returned only if every candidate was skipped or
\* does not match.
C8_ScanToleratesReadFailures ==
    ScanStarted =>
        /\ \A k \in Chain : pc[k] = "raised" => exc \notin ProcErrors
        /\ skipped \subseteq 1..(idx - 1)
        /\ (ScanFound => Satisfies(proc) /\ proc \notin skipped)
        /\ (ScanReturned /\ proc = None) =>
               \A p \in Pids : p \in skipped \/ ~Satisfies(p)

C8_Witness ==
    /\ ScanFound
    /\ \E s \in skipped : s < proc /\ Satisfies(s)

\* the substring that identifies the app on the platform
AppMarker(plat) ==
    IF plat = "win32" THEN S_ClaudeExe ELSE S_Claude

\* name or some command-line argument of process p holds the substring sub
Mentions(p, sub) ==
    \/ Contains(sub, table[p].name)
    \/ \E i \in 1..Len(table[p].cmdline) : Contains(sub, table[p].cmdline[i])

\* C9: find_claude_process never returns a process whose name and
\* command-line both lack the platform's app-identifying substring, and the
\* process it returns is the first in iteration order for which the platform
\* predicate evaluated to true.
C9_OnlyFirstMatchSelected ==
    ScanFound =>
        /\ Mentions(proc, AppMarker(platform))
        /\ Satisfies(proc)
        /\ \A q \in 1..(proc - 1) : q \in skipped \/ ~Satisfies(q)

C9_Witness ==
    /\ ScanFound
    /\ proc > 1
    /\ \E q \in 1..(proc - 1) : q \notin skipped /\ ~Mentions(q, AppMarker(platform))

\* C10 as stated: on every platform that is neither macOS nor Windows, when a
\* process whose attributes were readable has "Claude" in its name or
\* command-line, find_claude_process returns such a process.
C10_AsStated ==
    (platform \notin {"darwin", "win32"} /\ ScanReturned) =>
        ((\E p \in Pids \ skipped : Mentions(p, S_Claude))
            => (proc # None /\ Mentions(proc, S_Claude)))

\* C10 amended: on Linux (sys.platform starting with "linux"), when a process
\* whose attributes were readable has "Claude" (case-sensitive) in its name or
\* command-line, find_claude_process returns such a process.
C10_LinuxSubstringMatch ==
    (platform = "linux" /\ ScanReturned) =>
        ((\E p \in Pids \ skipped : Mentions(p, S_Claude))
            => (proc # None /\ Mentions(proc, S_Claude)))

C10_Witness ==
    /\ platform = "linux"
    /\ ScanFound
    /\ ~Contains(S_Claude, table[proc].name)
    /\ Mentions(proc, S_Claude)

\* C11: the parent-chain walk always terminates, for every parent relation
\* (cyclic ones and processes without parent included): neither while loop
\* of get_main_claude_process iterates more often than there are processes,
\* which a walk that visits no process twice never does.
C11_WalkTerminates ==
    steps <= NProc

\* process k has left daemonize and runs the code after it (line 188)
PastDaemonize(k) ==
    /\ platform # "win32"
    /\ k >= 1
    /\ \/ pc[k] \in {"main", "start_in_background", "raised"}
       \/ Did(k, "start_in_background")

\* C12: on POSIX daemonize runs first fork (parent exits), setsid, second
\* fork (parent exits), stream redirection in this order; the process that
\* returns from it is the grandchild: its parent is the exited leader of its
\* session, so it is no session leader, and its standard streams point to the
\* null device. On Windows no session or stream is ever changed.
C12_DaemonizeOrder ==
    /\ \A k \in Chain \ {0} :
          /\ pc[k] = "setsid" => (pc[k - 1] = "exit0" /\ session[k] # k)
          /\ pc[k] = "fork2" => (pc[k - 1] = "exit0" /\ session[k] = k)
          /\ pc[k] = "redirect" =>
                /\ k >= 2
                /\ session[k] = k - 1
                /\ pc[k - 1] = "exit0"
                /\ pc[k - 2] = "exit0"
          /\ PastDaemonize(k) =>
                /\ k >= 3
                /\ stdio[k] = "devnull"
                /\ session[k] = k - 1
                /\ pc[k - 1] = "exit0"
                /\ pc[k - 2] = "exit0"
    /\ platform = "win32" =>
          \A k \in Chain : session[k] = -1 /\ stdio[k] = "inherited"

C12_Witness ==
    /\ platform # "win32"
    /\ \E k \in Chain \ {0} : pc[k] = "main" /\ stdio[k] = "devnull" /\ session[k] = k - 1

\* the snapshot children as a set
ChildSet ==
    {children[i] : i \in 1..Len(children)}

\* child.terminate() of line 113 failed for the child at position ci and the
\* except of line 124 caught the error
ChildSignalFailed ==
    /\ caught # "none"
    /\ ci \in 1..Len(children)

\* C13: a snapshot process that has exited before it is signalled
\* (terminate() fails with no-such-process) does not abort the termination:
\* once kill_claude_process has returned, the other children and the parent
\* have been sent the terminate signal.
C13_ExitedChildDoesNotAbort ==
    (ChildSignalFailed /\ caught = "NoSuchProcess" /\ killResult # "none")
        => /\ proc \in signalled
           /\ \A c \in ChildSet \ {children[ci]} : c \in signalled

\* kill_claude_process has returned after its wait_procs call
ReturnedAfterWait ==
    /\ killResult # "none"
    /\ proc # None
    /\ proc \in signalled
    /\ ci = Len(children) + 1

\* C14: every process of the wait set that wait_procs reported alive has been
\* sent a force-kill when kill_claude_process returns (a process whose kill()
\* call itself failed counts as attempted).
C14_AllAliveForceKilled ==
    ReturnedAfterWait =>
        /\ alive \subseteq ({proc} \cup ChildSet)
        /\ forced \subseteq alive
        /\ Cardinality(alive \ forced) <= (IF caught = "none" THEN 0 ELSE 1)

\* C15: the parent is sent the terminate signal only after every child of the
\* snapshot has been sent it, and the wait (and the force-kill after it) only
\* starts once the parent has been signalled.
C15_ChildrenBeforeParent ==
    /\ proc \in signalled => ChildSet \subseteq signalled
    /\ \A k \in Chain :
          pc[k] \in {"wait", "force_kill"} => (proc # None /\ proc \in signalled)
    /\ (alive # {} \/ forced # {}) => proc \in signalled

C15_Witness ==
    /\ pc[0] = "wait"
    /\ Len(children) >= 1
    /\ proc \in signalled
    /\ ChildSet \subseteq signalled

\* C16: an ancestor attribute read failing with no-such-process, access-denied
\* or zombie is caught in both walks of get_main_claude_process: the program
\* is never left by such an error while the walk cursor is on an ancestor.
C16_WalkReadFailuresCaught ==
    \A k \in Chain :
        pc[k] = "raised" =>
            ~(exc \in ProcErrors /\ current \in Pids /\ steps >= 1 /\ idx = 0)

RECURSIVE ChainFrom(_, _)
\* the parent chain that starts at process p, nearest first, at most n long
ChainFrom(p, n) ==
    IF p = None \/ n = 0 THEN <<>> ELSE <<p>> \o ChainFrom(ppid[p], n - 1)

\* the current process and its ancestors, nearest first
Ancestry ==
    ChainFrom(Self, NProc)

\* the executable path of q was read and holds the real-app-binary fragment
HasBinary(q) ==
    q \notin unread /\ Contains(S_MacBinary, table[q].exe)

\* the lower-cased name of q is 'claude' or 'claude.exe'
BareNamed(q) ==
    Lower(table[q].name) \in {S_claude, S_claude_exe}

\* what C17 says get_main_claude_process returns
ExpectedMain ==
    LET n == Len(Ancestry)
        hits == {i \in 1..n : HasBinary(Ancestry[i])}
        named == {i \in 1..n : BareNamed(Ancestry[i])}
    IN IF hits # {} THEN Ancestry[CHOOSE i \in hits : \A j \in hits : i <= j]
       ELSE IF named # {} THEN Ancestry[CHOOSE i \in named : \A j \in named : i >= j]
       ELSE None

\* get_main_claude_process has just returned: with a process (line 110 is
\* next) or with absent (find_claude_process is about to start)
MainWalkReturned ==
    \/ pc[0] = "snapshot" /\ idx = 0
    \/ pc[0] = "scan" /\ idx = 1

\* the value it returned: find_claude_process runs only after an absent result
MainWalkResult ==
    IF idx = 0 THEN proc ELSE None

\* C17: get_main_claude_process, walking the chain that starts at the current
\* process, returns the nearest ancestor whose executable path holds the
\* real-app-binary fragment; if there is none, the topmost ancestor whose
\* lower-cased name is 'claude' or 'claude.exe'; and absent exactly when
\* neither exists.
C17_MainProcessSelection ==
    MainWalkReturned => MainWalkResult = ExpectedMain

C17_Witness ==
    /\ MainWalkReturned
    /\ Len(Ancestry) = 3
    /\ \A i \in 1..3 : ~HasBinary(Ancestry[i])
    /\ BareNamed(Ancestry[2])
    /\ BareNamed(Ancestry[3])
    /\ table[Ancestry[3]].name # S_claude
    /\ proc = Ancestry[3]

\* C18: the Terminator never sends a terminate or force-kill signal to the
\* calling process itself, so no process of the program is ended by its own
\* signal.
C18_NeverSignalsItself ==
    /\ Self \notin signalled
    /\ Self \notin forced
    /\ \A k \in Chain : pc[k] # "killed"

\* C19: after an invocation with --daemon the chain of background relaunches
\* is finite: a background process (every process but the original one) goes
\* on to the liveness probe and never takes the background-launch step again.
C19_BackgroundProcessProbes ==
    \A k \in Chain \ {0} :
        /\ pc[k] # "start_in_background"
        /\ ~Did(k, "start_in_background")

\* C20: whenever the Control Server starts serving (mcp.run), the
\* autoapproved_tools operation has already been registered on it, in both
\* entry modes.
C20_ToolRegisteredBeforeServing ==
    \A k \in Chain :
        (pc[k] = "serving" \/ Did(k, "mcp.run")) => registered[k]

====
